---------------------------- MODULE Spec2Model ----------------------------
(***************************************************************************)
(* A model of typed-sdk-builder (src/src/index.ts): the SDKBuilder class,  *)
(* its generated request functions and its localStorage helpers.           *)
(*                                                                         *)
(* Platform: a browser.  The globals HTMLFormElement, File, localStorage,  *)
(* fetch, URL and AbortSignal are defined.  JavaScript strings are         *)
(* sequences of one-character strings, so that the regular expressions,    *)
(* encodeURIComponent and the URL pathname setter can be computed as the   *)
(* platform computes them.                                                 *)
(***************************************************************************)
EXTENDS Integers, Sequences, FiniteSets, TLC

(***************************************************************************)
(* JavaScript values                                                       *)
(***************************************************************************)
Undefined == [t |-> "undefined"]
Null      == [t |-> "null"]
Str(s)    == [t |-> "string", s |-> s]
Num(n)    == [t |-> "number", n |-> n]
Obj(e)    == [t |-> "object", e |-> e]
Arr(e)    == [t |-> "array", e |-> e]
\* an HTMLFormElement: its enctype or a chosen file makes it multipart
Form(multipart, fields) == [t |-> "form", multipart |-> multipart, fields |-> fields]
FileV     == [t |-> "file"]
Bool(b)   == [t |-> "boolean", b |-> b]
Ent(k, v) == [k |-> k, v |-> v]
\* the string JSON.stringify(v), kept as the value it denotes
JsonText(v) == [t |-> "string", json |-> v]
\* an Error or DOMException object
Err(name, message) == [t |-> "error", name |-> name, message |-> message]

\* typeof v === 'object' (null, arrays, form elements and files included)
TypeofObject(v) == v.t \in {"null", "object", "array", "form", "file"}

\* the string of a key: "$params"
PARAMS == <<"$", "p", "a", "r", "a", "m", "s">>

Digit(n) == <<"0", "1", "2", "3", "4", "5", "6", "7", "8", "9">>[n + 1]

RECURSIVE NatToStr(_)
NatToStr(n) == IF n < 10 THEN <<Digit(n)>>
               ELSE NatToStr(n \div 10) \o <<Digit(n % 10)>>

\* Object.entries(v): an object's entries in insertion order; an array's
\* entries are keyed by its indices
Entries(v) ==
  IF v.t = "object" THEN v.e
  ELSE IF v.t = "array" THEN [i \in 1..Len(v.e) |-> Ent(NatToStr(i - 1), v.e[i])]
  ELSE <<>>

HasKey(v, k) == \E i \in 1..Len(Entries(v)) : Entries(v)[i].k = k

\* v[k], undefined when the key is absent
Get(v, k) ==
  IF HasKey(v, k)
  THEN Entries(v)[CHOOSE i \in 1..Len(Entries(v)) : Entries(v)[i].k = k].v
  ELSE Undefined

\* a delete that removes nothing
DeleteKeyKeeps(v, k) == Obj(Entries(v))

\* delete v[k] on the shallow copy of an object
DeleteKey(v, k) == Obj(SelectSeq(Entries(v), LAMBDA en : en.k # k))

\* the truthiness of a value
Truthy(v) ==
  CASE v.t \in {"undefined", "null"} -> FALSE
    [] v.t = "string" -> IF "s" \in DOMAIN v THEN v.s # <<>> ELSE TRUE
    [] v.t = "number" -> v.n # 0
    [] v.t = "boolean" -> v.b
    [] OTHER -> TRUE

RECURSIVE JoinSeqs(_, _)
JoinSeqs(ss, sep) ==
  IF ss = <<>> THEN <<>>
  ELSE IF Len(ss) = 1 THEN ss[1]
  ELSE ss[1] \o sep \o JoinSeqs(Tail(ss), sep)

\* String(v)
RECURSIVE ToStr(_)
ToStr(v) ==
  CASE v.t = "string" -> v.s
    [] v.t = "number" -> IF v.n < 0 THEN <<"-">> \o NatToStr(-v.n) ELSE NatToStr(v.n)
    [] v.t = "undefined" -> <<"u", "n", "d", "e", "f", "i", "n", "e", "d">>
    [] v.t = "null" -> <<"n", "u", "l", "l">>
    [] v.t = "boolean" -> IF v.b THEN <<"t", "r", "u", "e">>
                          ELSE <<"f", "a", "l", "s", "e">>
    [] v.t = "array" ->
         JoinSeqs([i \in 1..Len(v.e) |->
                     IF v.e[i].t \in {"undefined", "null"} THEN <<>> ELSE ToStr(v.e[i])],
                  <<",">>)
    [] v.t = "file" -> <<"[", "o", "b", "j", "e", "c", "t", " ", "F", "i", "l", "e", "]">>
    [] OTHER -> <<"[", "o", "b", "j", "e", "c", "t", " ", "O", "b", "j", "e", "c", "t", "]">>

(***************************************************************************)
(* Strings: search, replace, encodeURIComponent, the URL pathname setter   *)
(***************************************************************************)
Letters == {"a", "b", "c", "d", "e", "f", "g", "h", "i", "j", "k", "l", "m",
            "n", "o", "p", "q", "r", "s", "t", "u", "v", "w", "x", "y", "z",
            "A", "B", "C", "D", "E", "F", "O", "R"}
Digits == {"0", "1", "2", "3", "4", "5", "6", "7", "8", "9"}

\* the class \w of a regular expression
WordChars == Letters \cup Digits \cup {"_"}

\* the characters encodeURIComponent leaves alone
Unreserved == Letters \cup Digits \cup {"-", "_", ".", "!", "~", "*", "'", "(", ")"}

StartsAt(s, pat, i) ==
  /\ i >= 1
  /\ i + Len(pat) - 1 <= Len(s)
  /\ SubSeq(s, i, i + Len(pat) - 1) = pat

\* the first index >= from at which pat occurs in s, 0 when there is none
IndexFrom(s, pat, from) ==
  IF \E i \in from..Len(s) : StartsAt(s, pat, i)
  THEN CHOOSE i \in from..Len(s) :
         /\ StartsAt(s, pat, i)
         /\ \A j \in from..(i - 1) : ~StartsAt(s, pat, j)
  ELSE 0

\* s.includes(pat)
Includes(s, pat) == IndexFrom(s, pat, 1) # 0

\* s.replace(pat, rep) with a string pattern: the first occurrence only
ReplaceFirst(s, pat, rep) ==
  LET i == IndexFrom(s, pat, 1) IN
  IF i = 0 THEN s
  ELSE SubSeq(s, 1, i - 1) \o rep \o SubSeq(s, i + Len(pat), Len(s))

\* s.replace(new RegExp(pat, 'g'), rep) for a pattern of literal characters:
\* every occurrence, left to right, without overlap
RECURSIVE ReplaceAll(_, _, _)
ReplaceAll(s, pat, rep) ==
  LET i == IndexFrom(s, pat, 1) IN
  IF i = 0 \/ pat = <<>> THEN s
  ELSE SubSeq(s, 1, i - 1) \o rep
       \o ReplaceAll(SubSeq(s, i + Len(pat), Len(s)), pat, rep)

\* s.match(/:\w+/): the first colon followed by a word character, with the
\* longest run of word characters after it; <<>> when nothing matches
RECURSIVE WordRunEnd(_, _)
WordRunEnd(s, i) ==
  IF i < Len(s) /\ s[i + 1] \in WordChars THEN WordRunEnd(s, i + 1) ELSE i

MatchStartsAt(s, i) == s[i] = ":" /\ i < Len(s) /\ s[i + 1] \in WordChars

FirstPlaceholder(s) ==
  IF \E i \in 1..Len(s) : MatchStartsAt(s, i)
  THEN LET i == CHOOSE i \in 1..Len(s) :
                  /\ MatchStartsAt(s, i)
                  /\ \A j \in 1..(i - 1) : ~MatchStartsAt(s, j)
       IN SubSeq(s, i, WordRunEnd(s, i + 1))
  ELSE <<>>

EncodeChar(c) ==
  CASE c \in Unreserved -> <<c>>
    [] c = "/" -> <<"%", "2", "F">>
    [] c = ":" -> <<"%", "3", "A">>
    [] c = " " -> <<"%", "2", "0">>
    [] c = "%" -> <<"%", "2", "5">>
    [] c = "$" -> <<"%", "2", "4">>
    [] c = "," -> <<"%", "2", "C">>
    [] c = "[" -> <<"%", "5", "B">>
    [] c = "]" -> <<"%", "5", "D">>
    [] c = "?" -> <<"%", "3", "F">>
    [] c = "=" -> <<"%", "3", "D">>
    [] c = "&" -> <<"%", "2", "6">>

RECURSIVE encodeURIComponent(_)
encodeURIComponent(s) ==
  IF s = <<>> THEN <<>> ELSE EncodeChar(Head(s)) \o encodeURIComponent(Tail(s))

RECURSIVE SplitOn(_, _)
SplitOn(s, c) ==
  LET i == IndexFrom(s, <<c>>, 1) IN
  IF i = 0 THEN <<s>>
  ELSE <<SubSeq(s, 1, i - 1)>> \o SplitOn(SubSeq(s, i + 1, Len(s)), c)

\* the URL standard's single-dot and double-dot path segments
SingleDot == {<<".">>, <<"%", "2", "e">>, <<"%", "2", "E">>}
DoubleDot == {a \o b : a \in SingleDot, b \in SingleDot}

\* the path percent-encode set of the URL standard, on the model's alphabet
PathEncodeChar(c) ==
  CASE c = " " -> <<"%", "2", "0">>
    [] c = "?" -> <<"%", "3", "F">>
    [] OTHER -> <<c>>

RECURSIVE PathEncode(_)
PathEncode(s) ==
  IF s = <<>> THEN <<>> ELSE PathEncodeChar(Head(s)) \o PathEncode(Tail(s))

\* the URL standard's path state over the segments of the input: a
\* double-dot segment removes the segment before it, a single-dot segment is
\* dropped, and a dot segment in last position leaves an empty segment
RECURSIVE PathState(_, _)
PathState(segs, path) ==
  IF segs = <<>> THEN path
  ELSE LET seg == Head(segs)
           last == Len(segs) = 1
           shortened == IF path = <<>> THEN path ELSE SubSeq(path, 1, Len(path) - 1)
       IN IF seg \in DoubleDot
          THEN PathState(Tail(segs), IF last THEN Append(shortened, <<>>) ELSE shortened)
          ELSE IF seg \in SingleDot
          THEN PathState(Tail(segs), IF last THEN Append(path, <<>>) ELSE path)
          ELSE PathState(Tail(segs), Append(path, PathEncode(seg)))

RECURSIVE SerializePath(_)
SerializePath(path) ==
  IF path = <<>> THEN <<>> ELSE <<"/">> \o Head(path) \o SerializePath(Tail(path))

\* url.pathname = s, then url.pathname read back (an http: URL)
SetPathname(s) ==
  LET rest == IF s # <<>> /\ s[1] = "/" THEN Tail(s) ELSE s
  IN SerializePath(PathState(SplitOn(rest, "/"), <<>>))

\* s.replace(/\/$/, "")
StripTrailingSlash(s) ==
  IF s # <<>> /\ s[Len(s)] = "/" THEN SubSeq(s, 1, Len(s) - 1) ELSE s

\* s.replace(/^\//, "")
StripLeadingSlash(s) ==
  IF s # <<>> /\ s[1] = "/" THEN Tail(s) ELSE s

(***************************************************************************)
(* _generateFetchFunction, lines 125-148: how the arguments were passed    *)
(***************************************************************************)
\* the first key of $params whose value is an object or an array, <<>> when
\* every value is a scalar, null or undefined (lines 137-141)
\* a check that takes an array for a scalar
RECURSIVE FirstObjectParamNoArray(_)
FirstObjectParamNoArray(es) ==
  IF es = <<>> THEN <<>>
  ELSE IF Head(es).v.t = "object" THEN Head(es).k
  ELSE FirstObjectParamNoArray(Tail(es))

RECURSIVE FirstObjectParam(_)
FirstObjectParam(es) ==
  IF es = <<>> THEN <<>>
  ELSE IF TypeofObject(Head(es).v) /\ Head(es).v.t # "null" THEN Head(es).k
  ELSE FirstObjectParam(Tail(es))

Resolved(pps, payload) == [kind |-> "ok", pps |-> pps, payload |-> payload]
ValidationError(key)   == [kind |-> "throw", name |-> "Error", key |-> key]

\* a resolver that removes $params from the bag whatever its value
ResolveArgsAlwaysStrips(a, b) ==
  IF b # Undefined
  THEN Resolved(a, b)
  ELSE IF TypeofObject(a) /\ a # Null /\ a.t # "form"
  THEN LET singleArgObject == Obj(Entries(a))
           params == Get(singleArgObject, PARAMS)
       IN IF Truthy(params) /\ TypeofObject(params)
          THEN IF FirstObjectParam(Entries(params)) # <<>>
               THEN ValidationError(FirstObjectParam(Entries(params)))
               ELSE Resolved(params, DeleteKey(singleArgObject, PARAMS))
          ELSE Resolved(Undefined, DeleteKey(singleArgObject, PARAMS))
  ELSE Resolved(a, Undefined)

ResolveArgs(a, b) ==
  IF b # Undefined
  THEN Resolved(a, b)
  ELSE IF TypeofObject(a) /\ a # Null /\ a.t # "form"
  THEN LET singleArgObject == Obj(Entries(a))
           params == Get(singleArgObject, PARAMS)
       IN IF Truthy(params) /\ TypeofObject(params)
          THEN IF FirstObjectParam(Entries(params)) # <<>>
               THEN ValidationError(FirstObjectParam(Entries(params)))
               ELSE Resolved(params, DeleteKey(singleArgObject, PARAMS))
          ELSE Resolved(Undefined, singleArgObject)
  ELSE Resolved(a, Undefined)

\* a resolver that deletes $params from the caller's object itself
ArgumentAfterDeleted(a, b) ==
  IF /\ b = Undefined
     /\ TypeofObject(a) /\ a # Null /\ a.t # "form"
     /\ Truthy(Get(a, PARAMS)) /\ TypeofObject(Get(a, PARAMS))
     /\ FirstObjectParam(Entries(Get(a, PARAMS))) = <<>>
  THEN DeleteKey(a, PARAMS)
  ELSE a

\* the object the caller passed as first argument, after lines 125-148: line
\* 133 copies it (`{ ...idOrParamsPayload }`) and line 142 deletes from the
\* copy, nothing else writes to it
ArgumentAfter(a, b) == a

(***************************************************************************)
(* _buildUrl, lines 218-247                                                *)
(***************************************************************************)
\* value ?? ''
OrEmpty(v) == IF v.t \in {"undefined", "null"} THEN Str(<<>>) ELSE v

\* lines 237-242: the entries of the source in order, each replacing every
\* match of the regular expression made of ":" and its key
RECURSIVE ReplaceNamed(_, _)
ReplaceNamed(tempPath, es) ==
  IF es = <<>> THEN tempPath
  ELSE LET placeholder == <<":">> \o Head(es).k
           value == encodeURIComponent(ToStr(OrEmpty(Head(es).v)))
       IN ReplaceNamed(IF Includes(tempPath, placeholder)
                       THEN ReplaceAll(tempPath, placeholder, value)
                       ELSE tempPath,
                       Tail(es))

\* lines 231-234: the first placeholder found, replaced by the scalar
ReplaceSingle(tempPath, scalar) ==
  LET singleParamMatch == FirstPlaceholder(tempPath) IN
  IF singleParamMatch # <<>>
  THEN ReplaceFirst(tempPath, singleParamMatch, encodeURIComponent(ToStr(scalar)))
  ELSE tempPath

\* lines 223-225: the base path and the endpoint path, joined
JoinPaths(basePathname, endpointPath) ==
  StripTrailingSlash(basePathname) \o <<"/">> \o StripLeadingSlash(endpointPath)

SubstitutePath(tempPath, pathParamsSource) ==
  IF pathParamsSource.t \in {"undefined", "null"} THEN tempPath
  ELSE IF pathParamsSource.t \in {"string", "number"}
  THEN ReplaceSingle(tempPath, pathParamsSource)
  ELSE IF TypeofObject(pathParamsSource)
  THEN ReplaceNamed(tempPath, Entries(pathParamsSource))
  ELSE tempPath

\* the URL of a request: the origin and the search of the base URL are
\* copied (line 222), the pathname is set twice (lines 225 and 245)
BuildUrl(base, endpointPath, pathParamsSource) ==
  [origin   |-> base.origin,
   pathname |-> SetPathname(SubstitutePath(
                   SetPathname(JoinPaths(base.pathname, endpointPath)),
                   pathParamsSource)),
   search   |-> <<>>]

\* new URL(config.base), line 82
NewUrl(origin, rawPath) ==
  [origin |-> origin, pathname |-> SetPathname(rawPath), search |-> <<>>]

(***************************************************************************)
(* _prepareRequestBodyAndHeaders, lines 249-318                             *)
(***************************************************************************)
NoBody == [kind |-> "none"]
NoHeader == [set |-> FALSE]
Header(v) == [set |-> TRUE, v |-> v]

\* JSON.stringify then JSON.parse of a value: an entry whose value is
\* undefined is dropped, an undefined array element becomes null, a File or
\* a form element has no enumerable property of its own
RECURSIVE JsonValue(_)
JsonValue(v) ==
  CASE v.t = "object" ->
         Obj([i \in 1..Len(SelectSeq(v.e, LAMBDA en : en.v # Undefined)) |->
                LET en == SelectSeq(v.e, LAMBDA x : x.v # Undefined)[i]
                IN Ent(en.k, JsonValue(en.v))])
    [] v.t = "array" ->
         Arr([i \in 1..Len(v.e) |->
                IF v.e[i] = Undefined THEN Null ELSE JsonValue(v.e[i])])
    [] v.t \in {"file", "form"} -> Obj(<<>>)
    [] OTHER -> v

\* an array sent as one parameter, its elements joined
ArrayParamsJoined(key, items) == <<Ent(key, ToStr(Arr(items)))>>

\* lines 264-272: one query parameter per scalar entry, one per array element
RECURSIVE ArrayParams(_, _)
ArrayParams(key, items) ==
  IF items = <<>> THEN <<>>
  ELSE (IF Head(items) # Null THEN <<Ent(key, ToStr(Head(items)))>> ELSE <<>>)
       \o ArrayParams(key, Tail(items))

RECURSIVE QueryParams(_)
QueryParams(es) ==
  IF es = <<>> THEN <<>>
  ELSE LET key == Head(es).k
           val == Head(es).v
       IN (IF val # Undefined /\ val # Null
           THEN IF val.t = "array" THEN ArrayParams(key, val.e)
                ELSE <<Ent(key, ToStr(val))>>
           ELSE <<>>)
          \o QueryParams(Tail(es))

\* lines 320-341: the parts of a multipart body, with bracketed keys
RECURSIVE FormDataParts(_, _, _)
RECURSIVE FormDataItems(_, _, _)
FormDataItems(items, index, currentKey) ==
  IF items = <<>> THEN <<>>
  ELSE LET item == Head(items)
           arrayKey == currentKey \o <<"[">> \o NatToStr(index) \o <<"]">>
       IN (IF TypeofObject(item) /\ item # Null /\ item.t # "file"
           THEN FormDataParts(Entries(item), TRUE, arrayKey)
           ELSE IF item # Undefined /\ item # Null
           THEN <<Ent(arrayKey, IF item.t = "file" THEN item ELSE Str(ToStr(item)))>>
           ELSE <<>>)
          \o FormDataItems(Tail(items), index + 1, currentKey)

FormDataParts(es, nested, parentKey) ==
  IF es = <<>> THEN <<>>
  ELSE LET key == Head(es).k
           value == Head(es).v
           currentKey == IF nested /\ parentKey # <<>>
                         THEN parentKey \o <<"[">> \o key \o <<"]">>
                         ELSE key
       IN (IF value.t = "file" THEN <<Ent(currentKey, value)>>
           ELSE IF value.t = "array" THEN FormDataItems(value.e, 0, currentKey)
           ELSE IF TypeofObject(value) /\ value # Null
           THEN FormDataParts(Entries(value), TRUE, currentKey)
           ELSE IF value # Undefined /\ value # Null
           THEN <<Ent(currentKey, Str(ToStr(value)))>>
           ELSE <<>>)
          \o FormDataParts(Tail(es), nested, parentKey)

\* lines 299-301: a File among the values, or inside an array among them
HasFiles(payloadSource) ==
  \E i \in 1..Len(Entries(payloadSource)) :
    LET value == Entries(payloadSource)[i].v IN
    \/ value.t = "file"
    \/ value.t = "array" /\ \E j \in 1..Len(value.e) : value.e[j].t = "file"

\* lines 286-294: the fields of a form as an object, a repeated name
\* collecting its values in an array
RECURSIVE FormObject(_, _)
FormObject(fields, acc) ==
  IF fields = <<>> THEN Obj(acc)
  ELSE LET f == Head(fields)
           at == IF \E i \in 1..Len(acc) : acc[i].k = f.k
                 THEN CHOOSE i \in 1..Len(acc) : acc[i].k = f.k ELSE 0
       IN FormObject(Tail(fields),
            IF at = 0 THEN Append(acc, f)
            ELSE [acc EXCEPT ![at] =
                    Ent(f.k, IF acc[at].v.t = "array"
                             THEN Arr(Append(acc[at].v.e, f.v))
                             ELSE Arr(<<acc[at].v, f.v>>))])

RECURSIVE StrToNat(_)
StrToNat(s) ==
  IF s = <<>> THEN 0
  ELSE 10 * StrToNat(SubSeq(s, 1, Len(s) - 1))
       + (CHOOSE d \in 0..9 : Digit(d) = s[Len(s)])

IsNatLiteral(s) ==
  /\ s # <<>>
  /\ \A i \in 1..Len(s) : s[i] \in Digits
  /\ (Len(s) > 1 => s[1] # "0")

\* JSON.parse of a string of characters: the literals the model's alphabet
\* can spell
JsonParsable(s) ==
  \/ IsNatLiteral(s)
  \/ s # <<>> /\ s[1] = "-" /\ IsNatLiteral(Tail(s))
  \/ s \in {<<"n", "u", "l", "l">>, <<"t", "r", "u", "e">>, <<"f", "a", "l", "s", "e">>}

JsonParse(s) ==
  IF IsNatLiteral(s) THEN Num(StrToNat(s))
  ELSE IF s[1] = "-" THEN Num(-StrToNat(Tail(s)))
  ELSE IF s = <<"n", "u", "l", "l">> THEN Null
  ELSE Bool(s = <<"t", "r", "u", "e">>)

Prepared(url, body, contentType) ==
  [url |-> url, body |-> body, contentType |-> contentType]

\* the request body, the Content-Type header the encoder sets, and the URL
\* with the query parameters appended to it
PrepareRequestBodyAndHeaders(method, url, payloadSource) ==
  IF ~Truthy(payloadSource)
  THEN Prepared(url, NoBody, NoHeader)
  ELSE IF method \in {"GET", "DELETE"}
  THEN Prepared(IF TypeofObject(payloadSource)
                THEN [url EXCEPT !.search = @ \o QueryParams(Entries(payloadSource))]
                ELSE url,
                NoBody, NoHeader)
  ELSE IF payloadSource.t = "form"
  THEN IF payloadSource.multipart
       THEN Prepared(url, [kind |-> "multipart", parts |-> payloadSource.fields], NoHeader)
       ELSE Prepared(url,
                     [kind |-> "json", v |-> JsonValue(FormObject(payloadSource.fields, <<>>))],
                     Header("application/json"))
  ELSE IF TypeofObject(payloadSource)
  THEN IF HasFiles(payloadSource)
       THEN Prepared(url,
                     [kind |-> "multipart",
                      parts |-> FormDataParts(Entries(payloadSource), FALSE, <<>>)],
                     NoHeader)
       ELSE Prepared(url, [kind |-> "json", v |-> JsonValue(payloadSource)],
                     Header("application/json"))
  ELSE IF payloadSource.t = "string"
  THEN Prepared(url, [kind |-> "raw", s |-> payloadSource.s],
                IF JsonParsable(payloadSource.s)
                THEN Header("application/json") ELSE NoHeader)
  ELSE Prepared(url, NoBody, NoHeader)

(***************************************************************************)
(* store, dispose, clearAllPersistentData and session, lines 343-378       *)
(***************************************************************************)
TOKEN == <<"t", "o", "k", "e", "n">>
ACCESS_TOKEN == <<"a", "c", "c", "e", "s", "s", "_", "t", "o", "k", "e", "n">>
USER == <<"u", "s", "e", "r">>

\* the keys of localStorage the model uses, in the order localStorage.key
\* enumerates them
StoreKeySeq == <<TOKEN, ACCESS_TOKEN, USER>>
StoreKeys == {StoreKeySeq[i] : i \in 1..Len(StoreKeySeq)}

\* an item of localStorage is a string: String(value) kept as its
\* characters, JSON.stringify(value) kept as the value the text denotes
Missing == [t |-> "missing"]
RawItem(s) == [t |-> "raw", s |-> s]
JsonItem(v) == [t |-> "json", v |-> JsonValue(v)]

EmptyStorage == [k \in StoreKeys |-> Missing]

\* line 347: the string localStorage.setItem receives
StoredItem(value) ==
  IF TypeofObject(value) THEN JsonItem(value) ELSE RawItem(ToStr(value))

\* a store that keeps the text of null instead of removing the item
RECURSIVE StoreEntriesKeepsNull(_, _)
StoreEntriesKeepsNull(st, es) ==
  IF es = <<>> THEN st
  ELSE StoreEntriesKeepsNull(
         [st EXCEPT ![Head(es).k] = RawItem(ToStr(Head(es).v))], Tail(es))

\* lines 345-348, one entry after the other
RECURSIVE StoreEntries(_, _)
StoreEntries(st, es) ==
  IF es = <<>> THEN st
  ELSE StoreEntries(
         [st EXCEPT ![Head(es).k] =
            IF Head(es).v = Undefined \/ Head(es).v = Null
            THEN Missing ELSE StoredItem(Head(es).v)],
         Tail(es))

\* lines 371-375: JSON.parse(item), the item itself when that throws
ParsedItem(item) ==
  IF item.t = "json" THEN item.v
  ELSE IF JsonParsable(item.s) THEN JsonParse(item.s)
  ELSE Str(item.s)

\* lines 365-377: the snapshot of localStorage
RECURSIVE SessionEntries(_, _)
SessionEntries(st, keys) ==
  IF keys = <<>> THEN <<>>
  ELSE (IF st[Head(keys)] # Missing
        THEN <<Ent(Head(keys), ParsedItem(st[Head(keys)]))>>
        ELSE <<>>)
       \o SessionEntries(st, Tail(keys))

Session(st) == Obj(SessionEntries(st, StoreKeySeq))

\* line 161: sessionData?.token || sessionData?.access_token
SessionToken(sessionData) ==
  IF Truthy(Get(sessionData, TOKEN)) THEN Get(sessionData, TOKEN)
  ELSE Get(sessionData, ACCESS_TOKEN)

(***************************************************************************)
(* The session store as its contract describes it: a map from key to value *)
(* in which store upserts a key given a value and deletes a key given null,*)
(* dispose deletes the keys it names and clearAll deletes every key        *)
(***************************************************************************)
EmptyReference == [k \in StoreKeys |-> Missing]

RECURSIVE ReferenceStore(_, _)
ReferenceStore(ref, es) ==
  IF es = <<>> THEN ref
  ELSE ReferenceStore(
         [ref EXCEPT ![Head(es).k] =
            IF Head(es).v \in {Null, Undefined} THEN Missing ELSE Head(es).v],
         Tail(es))

ReferenceDelete(ref, keys) == [k \in StoreKeys |-> IF k \in keys THEN Missing ELSE ref[k]]

ReferenceKeys(ref) == {k \in StoreKeys : ref[k] # Missing}

(***************************************************************************)
(* The state of a client, of its calls and of localStorage                 *)
(***************************************************************************)
VARIABLES
  client,    \* the fields the constructor sets: baseUrl, defaultHeaders, requestTimeout
  calls,     \* the invocations of generated functions, by call slot
  storage,   \* localStorage
  reference, \* the map the contract of store, dispose and clearAll describes
  concurrent,\* whether the caller starts a call while another is in flight
  fin,       \* the arguments of a function applied on its own
  fout       \* and its result

vars == <<client, calls, storage, reference, concurrent, fin, fout>>

\* the number of call slots
NumCalls == 2
Calls == 1..NumCalls

\* line 88: the default of requestTimeout, in milliseconds
DefaultRequestTimeout == 30000

None == [t |-> "none"]

\* the constructor, lines 78-92
Construct(origin, rawPath) ==
  [baseUrl |-> NewUrl(origin, rawPath),
   defaultHeaders |-> [accept |-> Header("application/json"),
                       contentType |-> NoHeader,
                       authorization |-> NoHeader],
   requestTimeout |-> DefaultRequestTimeout]

IdleCall ==
  [pc |-> "idle", leaf |-> None, a |-> Undefined, b |-> Undefined,
   url |-> None, body |-> NoBody, headers |-> None, session |-> None,
   fetches |-> 0, aborted |-> FALSE, http |-> None, responseData |-> None,
   netError |-> None,
   cbCount |-> 0, cbState |-> "none", cbArg |-> None, cbFailure |-> None,
   result |-> None, error |-> None]

(***************************************************************************)
(* _initializeEndpoints and _isActualEndpointConfig, lines 94-115          *)
(***************************************************************************)
PATH == <<"p", "a", "t", "h">>
METHOD == <<"m", "e", "t", "h", "o", "d">>

\* the function _generateFetchFunction returns for a leaf (line 121)
Fn(endpointConfig, debugPath) ==
  [t |-> "function", config |-> endpointConfig, debugPath |-> debugPath]

\* a leaf test that knows GET alone
IsActualEndpointConfigGetOnly(config) ==
  /\ Get(config, PATH).t = "string"
  /\ Get(config, METHOD) = Str(<<"G", "E", "T">>)

\* lines 112-115, for a value that has properties
IsActualEndpointConfig(config) ==
  /\ Get(config, PATH).t = "string"
  /\ Get(config, METHOD).t = "string"

\* the target object of a walk, the warnings logged so far, and whether the
\* walk has thrown
Walk(branch, warnings, thrown) ==
  [branch |-> branch, warnings |-> warnings, thrown |-> thrown]

\* lines 99-109: the entries of a group in order.  Reading `.path` of null
\* or undefined (line 113) throws a TypeError, which ends the walk
RECURSIVE InitializeEndpoints(_, _, _)
InitializeEndpoints(endpointsConfig, currentObjectBranch, parentKeyPath) ==
  IF endpointsConfig = <<>> \/ currentObjectBranch.thrown THEN currentObjectBranch
  ELSE LET key == Head(endpointsConfig).k
           configValue == Head(endpointsConfig).v
           currentPath == IF parentKeyPath # <<>> THEN parentKeyPath \o <<".">> \o key
                          ELSE key
           rest == Tail(endpointsConfig)
       IN IF configValue \in {Null, Undefined}
          THEN [currentObjectBranch EXCEPT !.thrown = TRUE]
          ELSE IF IsActualEndpointConfig(configValue)
          THEN InitializeEndpoints(rest,
                 [currentObjectBranch EXCEPT
                    !.branch = Append(@, Ent(key, Fn(configValue, currentPath)))],
                 parentKeyPath)
          ELSE IF TypeofObject(configValue)
          THEN LET sub == InitializeEndpoints(Entries(configValue),
                            Walk(<<>>, currentObjectBranch.warnings, FALSE), currentPath)
               IN InitializeEndpoints(rest,
                    Walk(Append(currentObjectBranch.branch, Ent(key, Obj(sub.branch))),
                         sub.warnings, sub.thrown),
                    parentKeyPath)
          ELSE InitializeEndpoints(rest,
                 [currentObjectBranch EXCEPT !.warnings = Append(@, currentPath)],
                 parentKeyPath)

\* lines 90-91: the fetch object of a client, or the error the constructor
\* throws
ConstructFetch(endpoints) ==
  LET walk == InitializeEndpoints(Entries(endpoints), Walk(<<>>, <<>>, FALSE), <<>>) IN
  IF walk.thrown THEN [kind |-> "throw", name |-> "TypeError"]
  ELSE [kind |-> "ok", fetch |-> Obj(walk.branch), warnings |-> walk.warnings]

(***************************************************************************)
(* The platform: responses, errors, the credential callback                *)
(***************************************************************************)
\* Response.ok of the fetch standard
ResponseOk(status) == status >= 200 /\ status <= 299

\* a response of fetch: body is None for a null body, a JSON text (kept as
\* the value it denotes) or a text that is no JSON
HttpResponse(status, contentType, body) ==
  [status |-> status, ok |-> ResponseOk(status), contentType |-> contentType,
   body |-> body]

JsonBody(v) == [t |-> "jsontext", v |-> v]
TextBody(s) == [t |-> "text", s |-> s]

MESSAGE == <<"m", "e", "s", "s", "a", "g", "e">>
ERROR == <<"e", "r", "r", "o", "r">>
ERROR_DETAILS == <<"e", "r", "r", "o", "r", "D", "e", "t", "a", "i", "l", "s">>
RequestTimedOut ==
  <<"R", "e", "q", "u", "e", "s", "t", " ", "t", "i", "m", "e", "d", " ", "o", "u", "t">>
ClientSideError ==
  <<"A", " ", "c", "l", "i", "e", "n", "t", "-", "s", "i", "d", "e", " ",
    "e", "r", "r", "o", "r", " ", "o", "c", "c", "u", "r", "r", "e", "d", ".">>
FailedToFetch ==
  <<"F", "a", "i", "l", "e", "d", " ", "t", "o", " ", "f", "e", "t", "c", "h">>

\* what fetch rejects with when the network fails, and when the timeout of
\* AbortSignal.timeout expires
NetworkErrors == {Err("TypeError", FailedToFetch), Err("TypeError", <<>>)}
TimeoutError == Err("TimeoutError", <<"t", "i", "m", "e", "d">>)

\* what the callback may throw or reject with
CallbackFailures == {Err("Error", <<"c", "b">>), Undefined}

(***************************************************************************)
(* _generateFetchFunction, lines 121-216, one call                          *)
(***************************************************************************)
IsJsonType(contentType) == contentType \in {"application/json"}
IsTextType(contentType) == contentType \in {"text/plain"}

\* a call without the catch block: the error rejects the call
CaughtRethrows(cl, error) == [cl EXCEPT !.pc = "rejected", !.error = error]

\* lines 202-214: the catch block.  Reading error.name of undefined or null
\* throws a TypeError out of the catch block, which rejects the call
Caught(cl, error) ==
  IF error \in {Undefined, Null}
  THEN [cl EXCEPT !.pc = "rejected",
                  !.error = Err("TypeError", <<"n", "a", "m", "e">>)]
  ELSE LET errorIsTimeout == error.name = "TimeoutError"
           message == IF errorIsTimeout THEN RequestTimedOut
                      ELSE IF error.message # <<>> THEN error.message
                      ELSE ClientSideError
       IN [cl EXCEPT !.pc = "resolved",
                     !.result = [success |-> FALSE, ok |-> FALSE,
                                 response |-> Obj(<<Ent(MESSAGE, Str(message)),
                                                    Ent(ERROR_DETAILS, error)>>),
                                 status |-> 0]]

\* lines 186-188: error.message copied to message
NormalizeMessage(responseData) ==
  IF /\ Truthy(responseData)
     /\ responseData.t = "object"
     /\ Truthy(Get(Get(responseData, ERROR), MESSAGE))
     /\ Get(responseData, MESSAGE) = Undefined
  THEN Obj(Append(responseData.e, Ent(MESSAGE, Get(Get(responseData, ERROR), MESSAGE))))
  ELSE responseData

\* an envelope that takes 200 for the only success
EnvelopeOnly200(httpResponse, responseData) ==
  [success |-> httpResponse.status = 200, ok |-> httpResponse.ok,
   response |-> responseData, status |-> httpResponse.status]

\* lines 190-195
Envelope(httpResponse, responseData) ==
  [success |-> httpResponse.ok, ok |-> httpResponse.ok,
   response |-> responseData, status |-> httpResponse.status]

\* a check of the wrong status
IsInvalidCredentialForbidden(result) == result.status = 403

\* line 197
IsInvalidCredential(result) == result.status = 401

\* lines 185-200, from the parsed body on.  thrown is what the callback
\* throws when it is called, None when it returns
Normalized(cl, responseData, thrown) ==
  LET result == Envelope(cl.http, NormalizeMessage(responseData))
      withResult == [cl EXCEPT !.responseData = NormalizeMessage(responseData),
                               !.result = result]
  IN IF IsInvalidCredential(result)
     THEN LET called == [withResult EXCEPT !.cbCount = @ + 1, !.cbArg = result]
          IN IF thrown = None
             THEN [called EXCEPT !.pc = "awaitCallback", !.cbState = "pending"]
             ELSE Caught([called EXCEPT !.cbState = "rejected", !.cbFailure = thrown,
                                        !.result = None],
                         thrown)
     ELSE [withResult EXCEPT !.pc = "resolved"]

\* lines 177-183: whether the body is read, and how
BodyReader(httpResponse) ==
  IF httpResponse.status # 204 /\ httpResponse.body # None
  THEN IF IsJsonType(httpResponse.contentType) THEN "json"
       ELSE IF IsTextType(httpResponse.contentType) THEN "text"
       ELSE "none"
  ELSE "none"

\* httpResponse.json() and httpResponse.text() on a body that arrives whole
ReadBody(reader, body) ==
  IF reader = "json"
  THEN IF body.t = "jsontext" THEN body.v ELSE Null
  ELSE IF body.t = "jsontext" THEN JsonText(body.v) ELSE Str(body.s)

\* one Headers object for every call: a call starts from the headers of a
\* call that is still in flight
MergedHeadersShared(defaultHeaders, contentType) ==
  LET inFlight == {d \in Calls : calls[d].headers # None}
      shared == IF inFlight = {} THEN defaultHeaders
                ELSE calls[CHOOSE d \in inFlight : TRUE].headers
  IN IF contentType.set THEN [shared EXCEPT !.contentType = contentType] ELSE shared

\* lines 157-158: the default headers, then the headers of the encoder
MergedHeaders(defaultHeaders, contentType) ==
  IF contentType.set THEN [defaultHeaders EXCEPT !.contentType = contentType]
  ELSE defaultHeaders

\* a token read from localStorage when the request is sent
WithTokenOfStore(headers, sessionData) ==
  LET token == SessionToken(Session(storage)) IN
  IF Truthy(token) /\ token.t = "string"
  THEN [headers EXCEPT !.authorization = Header(<<"Bearer", token.s>>)]
  ELSE headers

\* lines 161-164: the bearer token of the snapshot
WithToken(headers, sessionData) ==
  LET token == SessionToken(sessionData) IN
  IF Truthy(token) /\ token.t = "string"
  THEN [headers EXCEPT !.authorization = Header(<<"Bearer", token.s>>)]
  ELSE headers

\* a start that leaves the read of localStorage for later
StartedWithoutSnapshot(cl, config, st, leaf, a, b) ==
  LET args == ResolveArgs(a, b)
      given == [cl EXCEPT !.leaf = leaf, !.a = ArgumentAfter(a, b), !.b = b] IN
  IF args.kind = "throw"
  THEN [given EXCEPT !.pc = "rejected", !.error = args]
  ELSE LET url == BuildUrl(config.baseUrl, leaf.path, args.pps)
           prepared == PrepareRequestBodyAndHeaders(leaf.method, url, args.payload)
       IN [given EXCEPT !.pc = "awaitSession",
                        !.url = prepared.url,
                        !.body = prepared.body,
                        !.headers = MergedHeaders(config.defaultHeaders,
                                                  prepared.contentType)]

\* lines 125-160: the synchronous start of a call, up to the first await
Started(cl, config, st, leaf, a, b) ==
  LET args == ResolveArgs(a, b)
      given == [cl EXCEPT !.leaf = leaf, !.a = ArgumentAfter(a, b), !.b = b] IN
  IF args.kind = "throw"
  THEN [given EXCEPT !.pc = "rejected", !.error = args]
  ELSE LET url == BuildUrl(config.baseUrl, leaf.path, args.pps)
           prepared == PrepareRequestBodyAndHeaders(leaf.method, url, args.payload)
       IN [given EXCEPT !.pc = "awaitSession",
                        !.url = prepared.url,
                        !.body = prepared.body,
                        !.headers = MergedHeaders(config.defaultHeaders,
                                                  prepared.contentType),
                        !.session = Session(st)]

(***************************************************************************)
(* The inputs of the model                                                 *)
(***************************************************************************)
ID == <<"i", "d">>
IDX == <<"i", "d", "x">>
NAME == <<"n", "a", "m", "e">>

UsersId == <<"/", "u", "s", "e", "r", "s", "/", ":", "i", "d">>

Leaf(path, method) == [path |-> path, method |-> method]

\* the path of config.base
Bases == {<<"/", "a", "p", "i", "/">>}

NameX == Ent(NAME, Str(<<"x">>))

\* the calls of a caller that awaits each call before the next: the leaf
\* and the two arguments
CallInputs ==
  { <<Leaf(UsersId, "GET"), Undefined, Undefined>>,
    <<Leaf(UsersId, "GET"), Num(2), Undefined>>,
    <<Leaf(UsersId, "POST"), Obj(<<Ent(PARAMS, Obj(<<Ent(ID, Num(2))>>)), NameX>>), Undefined>>,
    <<Leaf(UsersId, "POST"), Obj(<<Ent(ID, Str(<<"a">>))>>), Obj(<<NameX>>)>>,
    <<Leaf(UsersId, "POST"), Obj(<<Ent(ID, Obj(<<NameX>>))>>), Obj(<<NameX>>)>>,
    <<Leaf(UsersId, "POST"), Obj(<<Ent(PARAMS, Obj(<<Ent(ID, Obj(<<>>))>>)), NameX>>), Undefined>>,
    <<Leaf(UsersId, "GET"), Obj(<<Ent(PARAMS, Obj(<<Ent(ID, Arr(<<Num(1)>>))>>))>>), Undefined>>,
    <<Leaf(UsersId, "GET"), Obj(<<Ent(PARAMS, Obj(<<Ent(ID, Null)>>)), NameX>>), Undefined>> }

\* the calls of a caller that has several calls in flight
ConcurrentInputs ==
  { <<Leaf(UsersId, "GET"), Num(2), Undefined>>,
    <<Leaf(UsersId, "POST"), Obj(<<Ent(PARAMS, Obj(<<Ent(ID, Num(3))>>)), NameX>>), Undefined>> }

InputsOf(conc) == IF conc THEN ConcurrentInputs ELSE CallInputs

ResponseValues ==
  { Obj(<<Ent(MESSAGE, Str(<<"m">>))>>),
    Obj(<<Ent(ERROR, Obj(<<Ent(MESSAGE, Str(<<"e">>))>>))>>) }

\* no body stream, a body of no byte, a text that is no JSON, JSON texts
ResponseBodies ==
  {None, TextBody(<<>>), TextBody(<<"h", "i">>)} \cup {JsonBody(v) : v \in ResponseValues}

HttpResponses ==
  { HttpResponse(st, ct, bd) :
      st \in {200, 401, 403, 500},
      ct \in {"application/json", "text/plain", "image/png", "none"},
      bd \in ResponseBodies }
  \cup { HttpResponse(204, ct, None) : ct \in {"application/json", "none"} }

ConcurrentResponses ==
  { HttpResponse(200, "application/json", JsonBody(Obj(<<Ent(MESSAGE, Str(<<"m">>))>>))),
    HttpResponse(401, "none", None) }

ResponsesOf(conc) == IF conc THEN ConcurrentResponses ELSE HttpResponses

\* the objects store() is called with
StoreData ==
  { Obj(<<Ent(TOKEN, Str(<<"t", "1">>))>>),
    Obj(<<Ent(TOKEN, Null)>>),
    Obj(<<Ent(ACCESS_TOKEN, Str(<<"t", "2">>))>>),
    Obj(<<Ent(TOKEN, Num(12))>>),
    Obj(<<Ent(TOKEN, Str(<<"1", "2">>))>>) }

\* the objects store() is called with while calls are in flight
ConcurrentStoreData ==
  { Obj(<<Ent(TOKEN, Str(<<"t", "1">>))>>),
    Obj(<<Ent(TOKEN, Null)>>) }

\* the objects store() is called with when no call is made: values of every
\* type, several entries, a null and an undefined among them
StorageData ==
  StoreData \cup
  { Obj(<<Ent(TOKEN, Str(<<>>))>>),
    Obj(<<Ent(ACCESS_TOKEN, Num(0))>>),
    Obj(<<Ent(ACCESS_TOKEN, Bool(FALSE))>>),
    Obj(<<Ent(ACCESS_TOKEN, Str(<<"n", "u", "l", "l">>))>>),
    Obj(<<Ent(USER, Obj(<<NameX, Ent(ID, Num(2))>>))>>),
    Obj(<<Ent(USER, Arr(<<Num(1), Str(<<"a">>)>>))>>),
    Obj(<<Ent(USER, Bool(TRUE))>>),
    Obj(<<Ent(USER, Str(<<"t", "r", "u", "e">>))>>),
    Obj(<<Ent(USER, Str(<<"h", "i">>))>>),
    Obj(<<Ent(TOKEN, Str(<<"t", "1">>)), Ent(USER, Null)>>),
    Obj(<<Ent(USER, Undefined), Ent(ACCESS_TOKEN, Null)>>) }

DisposeKeys == {<<TOKEN>>, <<ACCESS_TOKEN, TOKEN>>, <<USER>>}

(***************************************************************************)
(* The actions                                                             *)
(***************************************************************************)
UnchangedFunction == UNCHANGED <<fin, fout>>

\* a generated function is called: lines 121-160, up to `await this.session()`
Invoke(c) ==
  /\ calls[c].pc = "idle"
  /\ \A d \in Calls : d < c => calls[d].pc # "idle"
  /\ concurrent \/ \A d \in Calls \ {c} : calls[d].pc = "idle"
  /\ \E input \in InputsOf(concurrent) :
       calls' = [calls EXCEPT ![c] =
                   Started(calls[c], client, storage, input[1], input[2], input[3])]
  /\ UNCHANGED <<client, storage, reference, concurrent>>
  /\ UnchangedFunction

\* a call that takes its response from a cache and calls fetch no more
ResumeSessionNoFetch(c) ==
  /\ calls[c].pc = "awaitSession"
  /\ calls' = [calls EXCEPT ![c] =
                 [@ EXCEPT !.pc = "awaitFetch",
                           !.headers = WithToken(@, calls[c].session)]]
  /\ UNCHANGED <<client, storage, reference, concurrent>>
  /\ UnchangedFunction

\* lines 160-173: the snapshot arrives, the token is set and fetch is called
ResumeSession(c) ==
  /\ calls[c].pc = "awaitSession"
  /\ calls' = [calls EXCEPT ![c] =
                 [@ EXCEPT !.pc = "awaitFetch",
                           !.headers = WithToken(@, calls[c].session),
                           !.fetches = @ + 1]]
  /\ UNCHANGED <<client, storage, reference, concurrent>>
  /\ UnchangedFunction

\* the callback, when it is called, may clear the stored session before it
\* returns or throws (README, lines 92-96)
CallbackRuns(before, after, clears) ==
  LET cleared == after.cbCount > before.cbCount /\ clears IN
  /\ storage' = IF cleared THEN EmptyStorage ELSE storage
  /\ reference' = IF cleared THEN EmptyReference ELSE reference

\* lines 167-200: fetch resolves with a response
FetchResponse(c) ==
  /\ calls[c].pc = "awaitFetch"
  /\ \E httpResponse \in ResponsesOf(concurrent), thrown \in CallbackFailures \cup {None},
        clears \in BOOLEAN :
       LET got == [calls[c] EXCEPT !.http = httpResponse]
           after == IF BodyReader(httpResponse) = "none"
                    THEN Normalized(got, Null, thrown)
                    ELSE [got EXCEPT !.pc = "awaitBody"]
       IN /\ calls' = [calls EXCEPT ![c] = after]
          /\ CallbackRuns(calls[c], after, clears)
  /\ UNCHANGED <<client, concurrent>>
  /\ UnchangedFunction

\* lines 167 and 202-214: fetch rejects, the network failed
FetchReject(c) ==
  /\ calls[c].pc = "awaitFetch"
  /\ \E error \in NetworkErrors :
       calls' = [calls EXCEPT ![c] = Caught([@ EXCEPT !.netError = error], error)]
  /\ UNCHANGED <<client, storage, reference, concurrent>>
  /\ UnchangedFunction

\* lines 179-200: the body has been read, or reading it failed
BodyRead(c) ==
  /\ calls[c].pc = "awaitBody"
  /\ \E failed \in BOOLEAN, thrown \in CallbackFailures \cup {None}, clears \in BOOLEAN :
       LET responseData == IF failed THEN Null
                           ELSE ReadBody(BodyReader(calls[c].http), calls[c].http.body)
           after == Normalized(calls[c], responseData, thrown)
       IN /\ calls' = [calls EXCEPT ![c] = after]
          /\ CallbackRuns(calls[c], after, clears)
  /\ UNCHANGED <<client, concurrent>>
  /\ UnchangedFunction

\* line 171: the signal of AbortSignal.timeout aborts the network operation.
\* A pending fetch rejects with the TimeoutError (lines 202-214); a pending
\* json() or text() rejects with it and `.catch(() => null)` (lines 179, 181)
\* turns that into a null body
Timeout(c) ==
  /\ calls[c].pc \in {"awaitFetch", "awaitBody"}
  /\ ~calls[c].aborted
  /\ \E thrown \in CallbackFailures \cup {None}, clears \in BOOLEAN :
       LET fired == [calls[c] EXCEPT !.aborted = TRUE]
           after == IF calls[c].pc = "awaitFetch"
                    THEN Caught([fired EXCEPT !.netError = TimeoutError], TimeoutError)
                    ELSE Normalized(fired, Null, thrown)
       IN /\ calls' = [calls EXCEPT ![c] = after]
          /\ CallbackRuns(calls[c], after, clears)
  /\ UNCHANGED <<client, concurrent>>
  /\ UnchangedFunction

\* lines 198-200: the callback's result settles
CallbackSettle(c) ==
  /\ calls[c].pc = "awaitCallback"
  /\ \E failure \in CallbackFailures \cup {None} :
       calls' = [calls EXCEPT ![c] =
                   IF failure = None
                   THEN [@ EXCEPT !.pc = "resolved", !.cbState = "fulfilled"]
                   ELSE Caught([@ EXCEPT !.cbState = "rejected", !.cbFailure = failure,
                                         !.result = None],
                               failure)]
  /\ UNCHANGED <<client, storage, reference, concurrent>>
  /\ UnchangedFunction

\* the caller has the outcome of the call and drops it
Release(c) ==
  /\ calls[c].pc \in {"resolved", "rejected"}
  /\ calls' = [calls EXCEPT ![c] = IdleCall]
  /\ UNCHANGED <<client, storage, reference, concurrent>>
  /\ UnchangedFunction

\* store(data), lines 343-349, for the objects of a set
Store(dataSet) ==
  /\ \E data \in dataSet :
       /\ storage' = StoreEntries(storage, Entries(data))
       /\ reference' = ReferenceStore(reference, Entries(data))
  /\ UNCHANGED <<client, calls, concurrent>>
  /\ UnchangedFunction

\* dispose(keys), lines 351-354
Dispose ==
  /\ \E keys \in DisposeKeys :
       /\ storage' = [k \in StoreKeys |->
                        IF \E i \in 1..Len(keys) : keys[i] = k THEN Missing ELSE storage[k]]
       /\ reference' = ReferenceDelete(reference, {keys[i] : i \in 1..Len(keys)})
  /\ UNCHANGED <<client, calls, concurrent>>
  /\ UnchangedFunction

\* clearAllPersistentData(), lines 356-359
ClearAllPersistentData ==
  /\ storage' = EmptyStorage
  /\ reference' = EmptyReference
  /\ UNCHANGED <<client, calls, concurrent>>
  /\ UnchangedFunction

NoFunction == [op |-> "none"]

InitClient(conc) ==
  /\ client \in {Construct("http://h", rawPath) : rawPath \in Bases}
  /\ calls = [c \in Calls |-> IdleCall]
  /\ storage = EmptyStorage
  /\ reference = EmptyReference
  /\ concurrent = conc
  /\ fin = NoFunction
  /\ fout = None

Init == InitClient(FALSE)

Next ==
  \/ \E c \in Calls : Invoke(c)
  \/ \E c \in Calls : ResumeSession(c)
  \/ \E c \in Calls : FetchResponse(c)
  \/ \E c \in Calls : FetchReject(c)
  \/ \E c \in Calls : BodyRead(c)
  \/ \E c \in Calls : Timeout(c)
  \/ \E c \in Calls : CallbackSettle(c)
  \/ \E c \in Calls : Release(c)
  \/ Store(StoreData)
  \/ Dispose
  \/ ClearAllPersistentData

\* a caller that awaits each call before it starts the next
Spec == Init /\ [][Next]_vars

\* a caller that starts calls while others are in flight, and stores and
\* removes one token meanwhile
InitConcurrent == InitClient(TRUE)

NextConcurrent ==
  \/ \E c \in Calls : Invoke(c)
  \/ \E c \in Calls : ResumeSession(c)
  \/ \E c \in Calls : FetchResponse(c)
  \/ \E c \in Calls : FetchReject(c)
  \/ \E c \in Calls : BodyRead(c)
  \/ \E c \in Calls : Timeout(c)
  \/ \E c \in Calls : CallbackSettle(c)
  \/ \E c \in Calls : Release(c)
  \/ Store(ConcurrentStoreData)
  \/ Dispose
  \/ ClearAllPersistentData

SpecConcurrent == InitConcurrent /\ [][NextConcurrent]_vars

\* store, dispose and clearAllPersistentData on their own, no call made
NextStorage ==
  \/ Store(StorageData)
  \/ Dispose
  \/ ClearAllPersistentData

SpecStorage == Init /\ [][NextStorage]_vars

(***************************************************************************)
(* The argument resolver and the URL builder applied on their own          *)
(***************************************************************************)
ParamsOf(v) == Ent(PARAMS, v)

\* the first argument of a call
FirstArguments ==
  { Undefined, Null, Num(2), Num(0), Str(<<"2">>), Str(<<>>), Form(FALSE, <<>>),
    Obj(<<>>),
    Obj(<<NameX>>),
    Obj(<<ParamsOf(Obj(<<Ent(ID, Num(2))>>)), NameX>>),
    Obj(<<NameX, ParamsOf(Obj(<<Ent(ID, Num(2))>>))>>),
    Obj(<<ParamsOf(Obj(<<Ent(ID, Num(2))>>))>>),
    Obj(<<ParamsOf(Obj(<<Ent(ID, Null), Ent(IDX, Str(<<"a">>))>>)), NameX>>),
    Obj(<<ParamsOf(Obj(<<>>)), NameX>>),
    Obj(<<ParamsOf(Num(2)), NameX>>),
    Obj(<<ParamsOf(Str(<<"2">>))>>),
    Obj(<<ParamsOf(Null), NameX>>),
    Obj(<<ParamsOf(Num(0)), NameX>>),
    Obj(<<ParamsOf(Obj(<<Ent(ID, Obj(<<>>))>>)), NameX>>),
    Obj(<<ParamsOf(Obj(<<Ent(ID, Num(2)), Ent(IDX, Arr(<<Num(1)>>))>>))>>),
    Obj(<<ParamsOf(Arr(<<Num(1)>>)), NameX>>) }

\* the second argument of a call
SecondArguments ==
  { Undefined, Null, Obj(<<>>), Obj(<<NameX>>), Form(FALSE, <<>>),
    Obj(<<ParamsOf(Obj(<<Ent(ID, Num(2))>>)), NameX>>) }

UrlBases == {<<"/", "a", "p", "i">>, <<"/", "a", "p", "i", "/">>, <<>>}

UrlPaths ==
  { UsersId,
    <<"u", "s", "e", "r", "s", "/", ":", "i", "d", "/", "p", "/", ":", "p", "i", "d">>,
    <<"/", ":", "i", "d", "x", "/", ":", "i", "d">>,
    <<"/", "f", "/", ":", "i", "d", "/", "x">>,
    <<"/", "a", "/", ":", "i", "d", "/", ":", "i", "d">>,
    <<"/", "u", "s", "e", "r", "s">> }

PID == <<"p", "i", "d">>

UrlParams ==
  { Undefined, Null, Num(2), Num(0), Num(10), Str(<<"2">>), Str(<<"a", "/", "b">>),
    Str(<<"a", " ", "b">>), Str(<<>>), Str(<<".", ".">>), Str(<<".">>),
    Obj(<<>>),
    Obj(<<Ent(ID, Num(2))>>),
    Obj(<<Ent(ID, Null)>>),
    Obj(<<Ent(ID, Undefined)>>),
    Obj(<<Ent(ID, Str(<<"a", " ", "b">>)), Ent(PID, Num(5))>>),
    Obj(<<Ent(PID, Num(5))>>),
    Obj(<<Ent(ID, Num(1)), Ent(IDX, Num(2))>>),
    Obj(<<Ent(IDX, Num(2)), Ent(ID, Num(1))>>),
    Obj(<<Ent(ID, Str(<<".", ".">>))>>),
    Obj(<<Ent(NAME, Str(<<"x">>))>>) }

TAGS == <<"t", "a", "g", "s">>
Q == <<"q">>
DOC == <<"d", "o", "c">>
FILE == <<"f", "i", "l", "e">>

Hi == Str(<<"h", "i">>)
ParamsId2 == ParamsOf(Obj(<<Ent(ID, Num(2))>>))

\* the methods of HTTP_METHOD, line 6
Methods == {"GET", "POST", "DELETE", "PUT", "PATCH"}

\* the payloads of a call given as its second argument
Payloads ==
  { Null, Str(<<>>), Hi, Str(<<"1", "2">>),
    Obj(<<>>),
    Obj(<<NameX>>),
    Obj(<<Ent(TAGS, Arr(<<Str(<<"a">>), Str(<<"b">>)>>)), Ent(Q, Hi)>>),
    Obj(<<Ent(TAGS, Arr(<<Str(<<"a">>), Null, Num(3)>>)), Ent(NAME, Null),
          Ent(ID, Undefined), Ent(Q, Hi)>>),
    Obj(<<Ent(TAGS, Arr(<<Undefined, Str(<<"b">>)>>)), Ent(Q, Num(0))>>),
    Obj(<<Ent(Q, Obj(<<NameX>>)), Ent(TAGS, Arr(<<>>))>>),
    Obj(<<Ent(DOC, FileV), NameX>>),
    Obj(<<NameX, Ent(DOC, Arr(<<Num(1), FileV>>))>>),
    Obj(<<Ent(DOC, Obj(<<Ent(FILE, FileV)>>)), NameX>>),
    Obj(<<Ent(DOC, Arr(<<Obj(<<Ent(FILE, FileV)>>)>>))>>),
    Obj(<<Ent(DOC, Obj(<<Ent(TAGS, Arr(<<FileV>>))>>)), Ent(FILE, FileV)>>),
    Form(FALSE, <<NameX, Ent(Q, Hi), Ent(NAME, Str(<<"y">>))>>),
    Form(TRUE, <<NameX, Ent(DOC, FileV)>>) }

\* the single argument of a call that gives no second argument
Bags ==
  { Undefined, Num(2), Str(<<>>),
    Obj(<<>>),
    Obj(<<NameX>>),
    Obj(<<ParamsId2, NameX>>),
    Obj(<<NameX, ParamsId2, Ent(Q, Arr(<<Num(1)>>))>>),
    Obj(<<ParamsId2>>),
    Obj(<<ParamsOf(Obj(<<>>))>>),
    Obj(<<ParamsId2, Ent(DOC, FileV)>>),
    Obj(<<ParamsId2, Ent(DOC, Obj(<<Ent(FILE, FileV)>>))>>),
    Obj(<<ParamsOf(Num(2)), NameX>>),
    Obj(<<ParamsOf(Obj(<<Ent(ID, Obj(<<>>))>>)), NameX>>),
    Form(FALSE, <<NameX>>) }

StartArguments ==
  {<<Num(2), payload>> : payload \in Payloads} \cup {<<bag, Undefined>> : bag \in Bags}

U == <<"u">>
G == <<"g">>
P == <<"p">>
BAD == <<"b", "a", "d">>

EndpointConfig(path, method) == Obj(<<Ent(PATH, Str(path)), Ent(METHOD, Str(method))>>)
GetU == EndpointConfig(<<"/", "u">>, <<"G", "E", "T">>)
PostU == EndpointConfig(<<"/", "u">>, <<"P", "O", "S", "T">>)

\* endpoint trees in which every node is a leaf or a group
ValidEndpoints ==
  { Obj(<<>>),
    Obj(<<Ent(G, GetU)>>),
    Obj(<<Ent(P, PostU), Ent(G, GetU)>>),
    Obj(<<Ent(U, Obj(<<Ent(G, GetU), Ent(P, PostU)>>)), Ent(P, GetU)>>),
    Obj(<<Ent(U, Obj(<<Ent(G, Obj(<<Ent(P, PostU)>>))>>)), Ent(G, Obj(<<>>))>>),
    Obj(<<Ent(U, Obj(<<Ent(PATH, Str(<<"/", "u">>)), Ent(METHOD, Str(<<"G", "E", "T">>)),
                       Ent(G, GetU)>>))>>) }

\* the values that are neither a leaf nor an object
InvalidNodes == {Null, Undefined, Str(<<"/", "u">>), Str(<<>>), Num(5), Num(0), Bool(TRUE)}

\* endpoint trees with such a value at the first or the second level,
\* before or after a leaf, and a leaf-looking node with a method that is
\* no string
InvalidEndpoints ==
  { Obj(<<Ent(BAD, node), Ent(G, GetU)>>) : node \in InvalidNodes } \cup
  { Obj(<<Ent(G, GetU), Ent(BAD, node)>>) : node \in InvalidNodes } \cup
  { Obj(<<Ent(U, Obj(<<Ent(G, GetU), Ent(BAD, node)>>)), Ent(P, PostU)>>) :
      node \in InvalidNodes } \cup
  { Obj(<<Ent(U, Obj(<<Ent(PATH, Str(<<"/", "u">>)), Ent(METHOD, Num(5))>>)), Ent(G, GetU)>>),
    Obj(<<Ent(BAD, Num(5)), Ent(U, Obj(<<Ent(BAD, Bool(TRUE)), Ent(G, GetU)>>))>>) }

FunctionInputs ==
  { [op |-> "resolve", a |-> a, b |-> b] : a \in FirstArguments, b \in SecondArguments }
  \cup
  { [op |-> "endpoints", endpoints |-> tree] : tree \in ValidEndpoints \cup InvalidEndpoints }
  \cup
  { [op |-> "start", leaf |-> Leaf(UsersId, method), a |-> args[1], b |-> args[2]] :
      method \in Methods, args \in StartArguments }
  \cup
  { [op |-> "url", base |-> NewUrl("http://h", base), path |-> path, pps |-> pps] :
      base \in UrlBases, path \in UrlPaths, pps \in UrlParams }

InitFunction ==
  /\ client = Construct("http://h", <<"/", "a", "p", "i">>)
  /\ calls = [c \in Calls |-> IdleCall]
  /\ storage = EmptyStorage
  /\ reference = EmptyReference
  /\ concurrent = FALSE
  /\ fin \in FunctionInputs
  /\ fout = None

\* lines 125-148 applied to a pair of arguments
ApplyResolveArgs ==
  /\ fin.op = "resolve"
  /\ fout = None
  /\ fout' = ResolveArgs(fin.a, fin.b)
  /\ UNCHANGED <<client, calls, storage, reference, concurrent, fin>>

\* _buildUrl applied to a base URL, a path template and a parameter source
ApplyBuildUrl ==
  /\ fin.op = "url"
  /\ fout = None
  /\ fout' = BuildUrl(fin.base, fin.path, fin.pps)
  /\ UNCHANGED <<client, calls, storage, reference, concurrent, fin>>

\* lines 125-160 applied to a leaf and a pair of arguments: the call up to
\* its first await
ApplyStart ==
  /\ fin.op = "start"
  /\ fout = None
  /\ fout' = Started(IdleCall, client, storage, fin.leaf, fin.a, fin.b)
  /\ UNCHANGED <<client, calls, storage, reference, concurrent, fin>>

\* lines 90-91 applied to the endpoints of a configuration
ApplyInitializeEndpoints ==
  /\ fin.op = "endpoints"
  /\ fout = None
  /\ fout' = ConstructFetch(fin.endpoints)
  /\ UNCHANGED <<client, calls, storage, reference, concurrent, fin>>

NextFunction == ApplyResolveArgs \/ ApplyBuildUrl \/ ApplyStart \/ ApplyInitializeEndpoints

SpecFunction == InitFunction /\ [][NextFunction]_vars

(***************************************************************************)
(* The properties                                                          *)
(***************************************************************************)
Settled(cl) == cl.pc \in {"resolved", "rejected"}
Got401(cl) == cl.http # None /\ cl.http.status = 401

\* C1 (as amended): for a call whose HTTP response has status 401 the
\* callback is invoked exactly once, with the envelope of that call (status
\* 401), and the call does not settle before the callback has settled; when
\* the callback returns or its promise fulfils the call resolves with that
\* envelope, and when it throws or rejects the call does not resolve with it
C1_CallbackOn401 ==
  \A c \in Calls :
    LET cl == calls[c] IN
    /\ cl.cbCount <= 1
    /\ Got401(cl) =>
         /\ Settled(cl) =>
              /\ cl.cbCount = 1
              /\ cl.cbState \in {"fulfilled", "rejected"}
              /\ cl.cbArg = [success |-> FALSE, ok |-> FALSE,
                             response |-> cl.responseData, status |-> 401]
         /\ cl.cbState = "pending" => cl.pc = "awaitCallback"
         /\ cl.cbState = "fulfilled" =>
              /\ cl.pc = "resolved"
              /\ cl.result = cl.cbArg
              /\ cl.result.status = 401
         /\ (cl.cbState = "rejected" /\ cl.pc = "resolved") => cl.result.status = 0

\* C1 as claimed: every settled call that got a 401 has had its callback
\* invoked once and settled, and has resolved with an envelope of status 401
C1_Original ==
  \A c \in Calls :
    LET cl == calls[c] IN
    (Got401(cl) /\ Settled(cl)) =>
      /\ cl.cbCount = 1
      /\ cl.cbState \in {"fulfilled", "rejected"}
      /\ cl.pc = "resolved"
      /\ cl.result.status = 401

C1_Witness ==
  \E c \in Calls :
    /\ Got401(calls[c])
    /\ calls[c].pc = "resolved"
    /\ calls[c].cbState = "fulfilled"
    /\ calls[c].result.status = 401

\* the message of a failure envelope for an error (line 209)
FailureMessage(error) ==
  IF error.name = "TimeoutError" THEN RequestTimedOut
  ELSE IF error.message # <<>> THEN error.message
  ELSE ClientSideError

IsFailureEnvelope(result, error) ==
  /\ result # None
  /\ result.status = 0
  /\ result.success = FALSE
  /\ result.ok = FALSE
  /\ result.response.t = "object"
  /\ Len(result.response.e) = 2
  /\ Get(result.response, MESSAGE) = Str(FailureMessage(error))
  /\ Get(result.response, ERROR_DETAILS) = error

\* C2 (as amended): a failure of the callback during the handling of a 401 is
\* caught by the try/catch of the call: the call resolves with a failure
\* envelope of status 0 that carries the thrown error, and only a thrown null
\* or undefined makes the call reject, with the TypeError of the catch block
C2_CallbackFailureCaught ==
  \A c \in Calls :
    LET cl == calls[c] IN
    cl.cbState = "rejected" =>
      IF cl.cbFailure \in {Undefined, Null}
      THEN cl.pc = "rejected" /\ cl.error = Err("TypeError", <<"n", "a", "m", "e">>)
      ELSE cl.pc = "resolved" /\ IsFailureEnvelope(cl.result, cl.cbFailure)

\* C2 as claimed: the failure of the callback rejects the call
C2_Original ==
  \A c \in Calls :
    calls[c].cbState = "rejected" =>
      calls[c].pc = "rejected" /\ calls[c].error = calls[c].cbFailure

C2_Witness ==
  \E c \in Calls :
    /\ calls[c].cbState = "rejected"
    /\ calls[c].cbFailure = Err("Error", <<"c", "b">>)
    /\ calls[c].pc = "resolved"
    /\ calls[c].result.status = 0

\* C3: a call whose fetch rejected (the network failed, or the timeout
\* expired before the response) is resolved, never rejected, with an envelope
\* of status 0, success and ok false, and a response {message, errorDetails}
C3_NetworkFailureEnvelope ==
  \A c \in Calls :
    LET cl == calls[c] IN
    cl.netError # None =>
      /\ cl.pc = "resolved"
      /\ IsFailureEnvelope(cl.result, cl.netError)
      /\ cl.result.response.e[1].k = MESSAGE
      /\ cl.result.response.e[2].k = ERROR_DETAILS

C3_Witness ==
  \E c \in Calls :
    /\ calls[c].netError \in NetworkErrors
    /\ calls[c].pc = "resolved"
    /\ calls[c].result.status = 0

\* C4 as claimed: a call whose timeout expired while fetch or the reading of
\* the body was pending resolves with status 0 and the message
\* 'Request timed out'
C4_TimeoutEnvelope ==
  \A c \in Calls :
    LET cl == calls[c] IN
    (cl.aborted /\ Settled(cl)) =>
      /\ cl.pc = "resolved"
      /\ cl.result.status = 0
      /\ Get(cl.result.response, MESSAGE) = Str(RequestTimedOut)

\* C5: every envelope has success = ok = (200 <= status <= 299)
C5_SuccessIsOk ==
  \A c \in Calls :
    LET r == calls[c].result IN
    r # None =>
      /\ r.success = r.ok
      /\ r.ok = (r.status >= 200 /\ r.status <= 299)

C5_Witness ==
  \E c \in Calls :
    /\ calls[c].pc = "resolved"
    /\ calls[c].result.status = 0
    /\ ~calls[c].result.success

Applied(op) == fin.op = op /\ fout # None

IsObjectValue(v) == v.t \in {"object", "array"}
HasObjectValue(params) ==
  \E i \in 1..Len(Entries(params)) : IsObjectValue(Entries(params)[i].v)
WithoutParams(a) == Obj(SelectSeq(a.e, LAMBDA en : en.k # PARAMS))

\* C6 (as amended): with b given (not undefined), the path parameters are a
\* and the payload is b; else with a an object that is no form element: when
\* $params is an object of scalars, the path parameters are $params and the
\* payload is a without $params; when $params is an object with an object or
\* array among its values the call throws; when $params is absent or no
\* object, there are no path parameters and the payload is a with every key,
\* $params included; else the path parameters are a and there is no payload
C6_ArgumentResolution ==
  Applied("resolve") =>
    IF fin.b # Undefined
    THEN fout = Resolved(fin.a, fin.b)
    ELSE IF fin.a.t = "object"
    THEN IF IsObjectValue(Get(fin.a, PARAMS))
         THEN IF HasObjectValue(Get(fin.a, PARAMS))
              THEN fout.kind = "throw"
              ELSE fout = Resolved(Get(fin.a, PARAMS), WithoutParams(fin.a))
         ELSE fout = Resolved(Undefined, fin.a)
    ELSE fout = Resolved(fin.a, Undefined)

\* C6 as claimed: the payload of a single object argument is always the
\* object without its $params key
C6_Original ==
  Applied("resolve") =>
    IF fin.b # Undefined
    THEN fout = Resolved(fin.a, fin.b)
    ELSE IF fin.a.t = "object"
    THEN fout = Resolved(IF IsObjectValue(Get(fin.a, PARAMS))
                         THEN Get(fin.a, PARAMS) ELSE Undefined,
                         WithoutParams(fin.a))
    ELSE fout = Resolved(fin.a, Undefined)

C6_Witness ==
  /\ Applied("resolve")
  /\ fin.b = Undefined
  /\ fin.a.t = "object"
  /\ Get(fin.a, PARAMS) = Num(2)
  /\ fout.kind = "ok"
  /\ Get(fout.payload, PARAMS) = Num(2)

\* a single argument whose $params object holds an object or an array
BadParams(a, b) ==
  /\ b = Undefined
  /\ a.t = "object"
  /\ IsObjectValue(Get(a, PARAMS))
  /\ HasObjectValue(Get(a, PARAMS))

\* C7: a single-argument call whose $params holds an object or an array
\* fails with the validation error, and no fetch is issued for it
C7_ValidationBeforeNetwork ==
  \A c \in Calls :
    LET cl == calls[c] IN
    (cl.pc # "idle" /\ BadParams(cl.a, cl.b)) =>
      /\ cl.pc = "rejected"
      /\ cl.error \in {ValidationError(k) : k \in {ID, IDX}}
      /\ cl.fetches = 0

C7_Witness ==
  \E c \in Calls :
    /\ calls[c].pc = "rejected"
    /\ BadParams(calls[c].a, calls[c].b)
    /\ \E i \in 1..Len(Entries(Get(calls[c].a, PARAMS))) :
         Entries(Get(calls[c].a, PARAMS))[i].v.t = "array"
    /\ calls[c].fetches = 0

\* the names of the placeholders of a path template
PlaceholderNames(path) ==
  { SubSeq(path, i + 1, WordRunEnd(path, i + 1)) :
      i \in {j \in 1..Len(path) : MatchStartsAt(path, j)} }

\* a template with each placeholder whose name is a key of the source
\* replaced by the encoded value of the key, the others left as they are
RECURSIVE Substituted(_, _)
Substituted(path, source) ==
  IF path = <<>> THEN <<>>
  ELSE IF MatchStartsAt(path, 1)
  THEN LET end == WordRunEnd(path, 2)
           name == SubSeq(path, 2, end)
       IN (IF HasKey(source, name)
           THEN encodeURIComponent(ToStr(OrEmpty(Get(source, name))))
           ELSE SubSeq(path, 1, end))
          \o Substituted(SubSeq(path, end + 1, Len(path)), source)
  ELSE <<Head(path)>> \o Substituted(Tail(path), source)

\* a template with its first placeholder replaced by the encoded scalar
SubstitutedFirst(path, scalar) ==
  IF \E i \in 1..Len(path) : MatchStartsAt(path, i)
  THEN LET i == CHOOSE i \in 1..Len(path) :
                  MatchStartsAt(path, i) /\ \A j \in 1..(i - 1) : ~MatchStartsAt(path, j)
       IN SubSeq(path, 1, i - 1) \o encodeURIComponent(ToStr(scalar))
          \o SubSeq(path, WordRunEnd(path, i + 1) + 1, Len(path))
  ELSE path

\* the base path and a path joined by one slash
OneSlash(basePathname, path) ==
  (IF basePathname # <<>> /\ basePathname[Len(basePathname)] = "/"
   THEN SubSeq(basePathname, 1, Len(basePathname) - 1) ELSE basePathname)
  \o <<"/">>
  \o (IF path # <<>> /\ path[1] = "/" THEN Tail(path) ELSE path)

\* C8 as claimed: with a scalar source the URL is the base path and the
\* template joined by one slash, the first placeholder replaced by the
\* encoded scalar and the later ones left as they are
C8_ScalarUrl ==
  (Applied("url") /\ fin.pps.t \in {"string", "number"}) =>
    /\ fout.origin = fin.base.origin
    /\ fout.pathname = OneSlash(fin.base.pathname, SubstitutedFirst(fin.path, fin.pps))

\* C9 as claimed: with an object source whose keys name every placeholder of
\* the template, every placeholder is replaced by the encoded value of its
\* key, the empty string for null and undefined
C9_NamedUrl ==
  (/\ Applied("url")
   /\ fin.pps.t = "object"
   /\ \A name \in PlaceholderNames(fin.path) : HasKey(fin.pps, name)) =>
    fout.pathname = OneSlash(fin.base.pathname, Substituted(fin.path, fin.pps))

\* C10 as claimed: with an object source, a placeholder whose name is no key
\* of the source is in the URL as it is in the template
C10_UnmatchedLiteral ==
  (Applied("url") /\ fin.pps.t = "object") =>
    \A name \in PlaceholderNames(fin.path) :
      ~HasKey(fin.pps, name) => Includes(fout.pathname, <<":">> \o name)

(***************************************************************************)
(* The payload encoder                                                     *)
(***************************************************************************)
IsStart(methods) ==
  /\ fin.op = "start"
  /\ fout # None
  /\ fin.leaf.method \in methods

\* the payload the resolver gives the encoder, None when validation throws
StartPayload ==
  IF ResolveArgs(fin.a, fin.b).kind = "ok" THEN ResolveArgs(fin.a, fin.b).payload ELSE None

IsPlainObject(v) == v.t = "object"

RECURSIVE Concat(_)
Concat(ss) == IF ss = <<>> THEN <<>> ELSE Head(ss) \o Concat(Tail(ss))

\* the pairs of one payload entry: none for null and undefined, one for
\* each element of an array that is not null, one for any other value
PairsOfEntry(en) ==
  IF en.v \in {Null, Undefined} THEN <<>>
  ELSE IF en.v.t = "array"
  THEN LET kept == SelectSeq(en.v.e, LAMBDA x : x # Null)
       IN [i \in 1..Len(kept) |-> Ent(en.k, ToStr(kept[i]))]
  ELSE <<Ent(en.k, ToStr(en.v))>>

\* the pairs of one payload entry as claimed: an array gives one pair for
\* each of its elements, a scalar one pair, anything else none
ClaimedPairsOfEntry(en) ==
  IF en.v \in {Null, Undefined} THEN <<>>
  ELSE IF en.v.t = "array"
  THEN [i \in 1..Len(en.v.e) |-> Ent(en.k, ToStr(en.v.e[i]))]
  ELSE IF en.v.t \in {"string", "number", "boolean"} THEN <<Ent(en.k, ToStr(en.v))>>
  ELSE <<>>

\* C11 (as amended): a GET or DELETE call with an object payload has no body
\* and its query is, in payload key order and array element order, one pair
\* key=String(value) for each entry whose value is not null, undefined or
\* an array, and one pair for each element that is not null of each array
C11_QueryParams ==
  (IsStart({"GET", "DELETE"}) /\ IsPlainObject(StartPayload)) =>
    /\ fout.pc = "awaitSession"
    /\ fout.body = NoBody
    /\ fout.headers.contentType = NoHeader
    /\ fout.url.search =
         Concat([i \in 1..Len(StartPayload.e) |-> PairsOfEntry(StartPayload.e[i])])

\* C11 as claimed: one pair for each scalar entry and one for each element
\* of each array
C11_Original ==
  (IsStart({"GET", "DELETE"}) /\ IsPlainObject(StartPayload)) =>
    /\ fout.body = NoBody
    /\ fout.url.search =
         Concat([i \in 1..Len(StartPayload.e) |-> ClaimedPairsOfEntry(StartPayload.e[i])])

C11_Witness ==
  /\ IsStart({"GET"})
  /\ fin.b = Obj(<<Ent(TAGS, Arr(<<Str(<<"a">>), Str(<<"b">>)>>)), Ent(Q, Hi)>>)
  /\ fout.body = NoBody
  /\ fout.url.search = <<Ent(TAGS, <<"a">>), Ent(TAGS, <<"b">>), Ent(Q, <<"h", "i">>)>>

\* a File at any depth of a value
RECURSIVE ContainsFile(_)
ContainsFile(v) ==
  \/ v.t = "file"
  \/ /\ v.t \in {"object", "array"}
     /\ \E i \in 1..Len(v.e) : ContainsFile(IF v.t = "object" THEN v.e[i].v ELSE v.e[i])

BodyMethods == {"POST", "PUT", "PATCH"}

\* C12: a POST, PUT or PATCH call whose object payload holds a file at any
\* depth has a multipart body and no Content-Type set by the encoder
C12_FilesAreMultipart ==
  (IsStart(BodyMethods) /\ IsPlainObject(StartPayload) /\ ContainsFile(StartPayload)) =>
    /\ fout.body.kind = "multipart"
    /\ fout.headers.contentType = NoHeader

\* the bag of a call that gives one argument: an object that holds an object
\* $params and no file at any depth of its other fields
IsParamsBag(a, b) ==
  /\ b = Undefined
  /\ a.t = "object"
  /\ Get(a, PARAMS).t = "object"
  /\ ~ContainsFile(WithoutParams(a))

\* C13: a POST, PUT or PATCH call with such a bag, when the values of
\* $params pass validation, has the URL the builder makes of $params, the
\* JSON encoding of the bag without its $params key for a body, and
\* Content-Type: application/json
C13_ParamsBag ==
  (IsStart(BodyMethods) /\ IsParamsBag(fin.a, fin.b)) =>
    IF \E i \in 1..Len(Get(fin.a, PARAMS).e) : IsObjectValue(Get(fin.a, PARAMS).e[i].v)
    THEN fout.pc = "rejected"
    ELSE /\ fout.pc = "awaitSession"
         /\ fout.url = BuildUrl(client.baseUrl, fin.leaf.path, Get(fin.a, PARAMS))
         /\ fout.body = [kind |-> "json", v |-> JsonValue(WithoutParams(fin.a))]
         /\ ~HasKey(fout.body.v, PARAMS)
         /\ fout.headers.contentType = Header("application/json")

C13_Witness ==
  /\ IsStart({"POST"})
  /\ fin.a = Obj(<<ParamsId2, NameX>>)
  /\ fin.b = Undefined
  /\ fout.url.pathname = <<"/", "a", "p", "i", "/", "u", "s", "e", "r", "s", "/", "2">>
  /\ fout.body = [kind |-> "json", v |-> Obj(<<NameX>>)]
  /\ fout.headers.contentType = Header("application/json")

IsEmptyPayload(v) == v \in {Undefined, Null, Str(<<>>), Obj(<<>>)}

\* C14: a call of any method whose resolved payload is undefined, null, the
\* empty string or an object with no entries has no body
C14_EmptyPayloadNoBody ==
  (IsStart(Methods) /\ IsEmptyPayload(StartPayload)) => fout.body = NoBody

(***************************************************************************)
(* The bearer token and the session store                                  *)
(***************************************************************************)
Bearer(token) == Header(<<"Bearer", token>>)

\* a call whose request has been handed to fetch
Sent(cl) == cl.fetches > 0

\* the Authorization header as claimed for a snapshot: the token field when
\* it is a string, else the access_token field when it is a string
ClaimedAuthorization(sessionData) ==
  IF Get(sessionData, TOKEN).t = "string" THEN Bearer(Get(sessionData, TOKEN).s)
  ELSE IF Get(sessionData, ACCESS_TOKEN).t = "string"
  THEN Bearer(Get(sessionData, ACCESS_TOKEN).s)
  ELSE NoHeader

\* C15: the request of a call carries Authorization: Bearer v when the
\* snapshot the call took has a token or an access_token field whose value
\* v is a string, and no Authorization header when neither is a string
C15_BearerFromSnapshot ==
  \A c \in Calls :
    Sent(calls[c]) => calls[c].headers.authorization = ClaimedAuthorization(calls[c].session)

\* the Authorization header the contract of the store gives: the last token
\* stored and not removed, when it is a string that is not empty, else the
\* last access_token
ReferenceAuthorization(ref) ==
  IF ref[TOKEN].t = "string" /\ ref[TOKEN].s # <<>> THEN Bearer(ref[TOKEN].s)
  ELSE IF ref[ACCESS_TOKEN].t = "string" /\ ref[ACCESS_TOKEN].s # <<>>
  THEN Bearer(ref[ACCESS_TOKEN].s)
  ELSE NoHeader

\* C16: a call started after store({token: t}) or store({access_token: t}),
\* t a string that is not empty, sends Authorization: Bearer t until the
\* entry is removed by store of null, dispose or clearAllPersistentData;
\* a call started after that sends no Authorization header; the header
\* sent is the one of the snapshot the call took when it started
C16_TokenFollowsStore ==
  [][\A c \in Calls :
       /\ (calls[c].pc = "idle" /\ calls'[c].pc = "awaitSession") =>
            WithToken(calls'[c].headers, calls'[c].session).authorization
              = ReferenceAuthorization(reference)
       /\ (calls[c].pc = "awaitSession" /\ calls'[c].pc = "awaitFetch") =>
            calls'[c].headers.authorization
              = WithToken(calls[c].headers, calls[c].session).authorization]_vars

SnapshotKeys(st) == {k \in StoreKeys : HasKey(Session(st), k)}

\* C17: after any sequence of store, dispose and clearAllPersistentData the
\* keys of the snapshot are the keys of the reference map: a key stored
\* with a value is there, a key stored with null, disposed of or cleared
\* is not, and the other keys are as they were
C17_SnapshotKeys == SnapshotKeys(storage) = ReferenceKeys(reference)

C17_Witness ==
  /\ reference[TOKEN] = Missing
  /\ reference[USER] = Bool(TRUE)
  /\ reference[ACCESS_TOKEN] = Str(<<"n", "u", "l", "l">>)
  /\ SnapshotKeys(storage) = {USER, ACCESS_TOKEN}

\* C18: the snapshot returns under every key the value last stored under
\* it, with its type
C18_StoreRoundTrip ==
  \A k \in StoreKeys :
    reference[k] # Missing => Get(Session(storage), k) = reference[k]

(***************************************************************************)
(* The endpoint tree and the generated client                              *)
(***************************************************************************)
Walked == fin.op = "endpoints" /\ fout # None

\* a leaf: a node with a string path and a string method
IsLeaf(node) ==
  /\ node.t = "object"
  /\ Get(node, PATH).t = "string"
  /\ Get(node, METHOD).t = "string"

IsInvalidNode(node) == node.t \in {"null", "undefined", "string", "number", "boolean"}

\* every node of the tree is a leaf or an object
RECURSIVE IsValidTree(_)
IsValidTree(tree) ==
  /\ tree.t = "object"
  /\ \A i \in 1..Len(tree.e) : IsLeaf(tree.e[i].v) \/ IsValidTree(tree.e[i].v)

\* the tree without the keys of its invalid nodes, at every depth
RECURSIVE Pruned(_)
Pruned(tree) ==
  LET kept == SelectSeq(tree.e, LAMBDA en : ~IsInvalidNode(en.v)) IN
  Obj([i \in 1..Len(kept) |->
         IF IsLeaf(kept[i].v) THEN kept[i] ELSE Ent(kept[i].k, Pruned(kept[i].v))])

\* the client has the keys of the tree, a function of the leaf for every
\* leaf and a nested object that mirrors the group for every group
RECURSIVE Mirrors(_, _)
Mirrors(generated, tree) ==
  /\ generated.t = "object"
  /\ Len(generated.e) = Len(tree.e)
  /\ \A i \in 1..Len(tree.e) :
       /\ generated.e[i].k = tree.e[i].k
       /\ IF IsLeaf(tree.e[i].v)
          THEN /\ generated.e[i].v.t = "function"
               /\ generated.e[i].v.config = tree.e[i].v
          ELSE Mirrors(generated.e[i].v, tree.e[i].v)

\* the number of invalid nodes of a tree
RECURSIVE InvalidCount(_)
InvalidCount(tree) ==
  IF tree.e = <<>> THEN 0
  ELSE (IF IsInvalidNode(Head(tree.e).v) THEN 1
        ELSE IF IsLeaf(Head(tree.e).v) THEN 0
        ELSE InvalidCount(Head(tree.e).v))
       + InvalidCount(Obj(Tail(tree.e)))

C20_InvalidNodeSkipped ==
  (Walked /\ ~IsValidTree(fin.endpoints)) =>
    /\ fout.kind = "ok"
    /\ Mirrors(fout.fetch, Pruned(fin.endpoints))
    /\ Len(fout.warnings) = InvalidCount(fin.endpoints)

(***************************************************************************)
(* The pipeline of a call                                                  *)
(***************************************************************************)
\* the call was rejected by the validation of $params
FailedValidation(cl) == cl.pc = "rejected" /\ "kind" \in DOMAIN cl.error

IsEmptyBody(body) == body = None \/ body = TextBody(<<>>)

\* the response as claimed for an HTTP response whose body decodes: null
\* for a 204 and for an empty body, the JSON value (its nested
\* error.message copied to message) for application/json, the text for
\* text/, null for another content type
ClaimedResponse(httpResponse) ==
  IF httpResponse.status = 204 \/ IsEmptyBody(httpResponse.body) THEN Null
  ELSE IF IsJsonType(httpResponse.contentType)
  THEN IF httpResponse.body.t = "jsontext"
       THEN NormalizeMessage(httpResponse.body.v) ELSE Null
  ELSE IF IsTextType(httpResponse.contentType)
  THEN IF httpResponse.body.t = "jsontext"
       THEN JsonText(httpResponse.body.v) ELSE Str(httpResponse.body.s)
  ELSE Null

\* C22: the envelope made of an HTTP response has the claimed response, or
\* null when decoding the body failed, and its success and status are
\* those of the HTTP status
C22_ParsedResponse ==
  \A c \in Calls :
    LET cl == calls[c] IN
    (cl.result # None /\ cl.result.status # 0) =>
      /\ cl.result.response \in {ClaimedResponse(cl.http), Null}
      /\ cl.result.status = cl.http.status
      /\ cl.result.success = (cl.http.status >= 200 /\ cl.http.status <= 299)
      /\ cl.result.ok = cl.result.success

\* the stages of a call: the arguments are resolved, the URL built, the
\* payload encoded and the headers merged before the first await; then the
\* token is set and the network call made; then the response is
\* normalized; then the credential callback runs; then the call settles
StageOf(pc) ==
  CASE pc = "idle" -> 0
    [] pc = "awaitSession" -> 1
    [] pc = "awaitFetch" -> 2
    [] pc = "awaitBody" -> 3
    [] pc = "awaitCallback" -> 4
    [] pc \in {"resolved", "rejected"} -> 5

\* C23: a call goes through its stages in order and never back, until the
\* caller takes its outcome; it ends with an envelope returned or with the
\* validation error of $params raised, which is raised at the start only
C23_LinearPipeline ==
  [][\A c \in Calls :
       calls'[c].pc # calls[c].pc =>
         /\ IF calls'[c].pc = "idle" THEN Settled(calls[c])
            ELSE StageOf(calls'[c].pc) > StageOf(calls[c].pc)
         /\ calls'[c].pc = "resolved" => calls'[c].result # None
         /\ calls'[c].pc = "rejected" =>
              /\ calls[c].pc = "idle"
              /\ FailedValidation(calls'[c])]_vars

(***************************************************************************)
(* Calls in flight together                                                *)
(***************************************************************************)
InProgress(cl) == cl.pc \notin {"idle", "resolved", "rejected"}

\* a step of another call or of the store, during which call c stands still
OtherStep(c) ==
  /\ calls'[c] = calls[c]
  /\ \/ storage' # storage
     \/ \E d \in Calls \ {c} : calls'[d] # calls[d]

\* C24 (as amended): another call or a store operation can take a step while
\* a call is in progress at four points only: the await of the snapshot, the
\* network call, the read of the response body, the credential callback;
\* the arguments are resolved, the URL built, the payload encoded, the
\* headers merged and localStorage read in the one step of the invocation
C24_SuspensionPoints ==
  [][\A c \in Calls :
       /\ (InProgress(calls[c]) /\ OtherStep(c)) =>
            /\ calls[c].pc \in {"awaitSession", "awaitFetch", "awaitBody", "awaitCallback"}
            /\ calls[c].url # None
            /\ calls[c].headers # None
            /\ calls[c].session # None
            /\ calls[c].pc = "awaitBody" => BodyReader(calls[c].http) # "none"
            /\ calls[c].pc = "awaitCallback" => calls[c].cbArg.status = 401
       /\ (calls[c].pc = "idle" /\ calls'[c].pc # "idle") =>
            /\ calls'[c].pc \in {"awaitSession", "rejected"}
            /\ calls'[c].pc = "awaitSession" =>
                 /\ calls'[c].url # None
                 /\ calls'[c].session = Session(storage)]_vars

\* C24 as claimed: the network call and the credential callback are the
\* only points at which another call or a store operation takes a step
C24_Original ==
  [][\A c \in Calls :
       (InProgress(calls[c]) /\ OtherStep(c)) =>
         calls[c].pc \in {"awaitFetch", "awaitCallback"}]_vars

\* a call waits for the body of its response while another call is made
C24_Witness ==
  \E c, d \in Calls :
    /\ calls[c].pc = "awaitBody"
    /\ calls[d].pc = "awaitFetch"
    /\ storage[TOKEN] # Missing
    /\ Get(calls[c].session, TOKEN) = Undefined

\* the Authorization header of a snapshot: its token when that is truthy,
\* else its access_token, when the one taken is a string that is not empty
BearerOf(sessionData) ==
  LET token == Get(sessionData, TOKEN)
      taken == IF Truthy(token) THEN token ELSE Get(sessionData, ACCESS_TOKEN)
  IN IF taken.t = "string" /\ Truthy(taken) THEN Bearer(taken.s) ELSE NoHeader

\* the request of a call is the one its own leaf, arguments and snapshot
\* give against the client's configuration
RequestAlone(cl) ==
  LET args == ResolveArgs(cl.a, cl.b)
      url == BuildUrl(client.baseUrl, cl.leaf.path, args.pps)
      prepared == PrepareRequestBodyAndHeaders(cl.leaf.method, url, args.payload)
  IN /\ cl.url = prepared.url
     /\ cl.url.search = IF cl.leaf.method \in {"GET", "DELETE"} /\ args.payload.t = "object"
                        THEN Concat([i \in 1..Len(args.payload.e) |->
                                       PairsOfEntry(args.payload.e[i])])
                        ELSE <<>>
     /\ cl.body = prepared.body
     /\ cl.headers.accept = Header("application/json")
     /\ cl.headers.contentType =
          IF cl.body.kind = "json" THEN Header("application/json") ELSE NoHeader
     /\ cl.headers.authorization = IF Sent(cl) THEN BearerOf(cl.session) ELSE NoHeader

\* the envelope of a call is made of its own response or of its own failure
EnvelopeAlone(cl) ==
  IF cl.netError # None THEN IsFailureEnvelope(cl.result, cl.netError)
  ELSE IF cl.cbFailure # None THEN IsFailureEnvelope(cl.result, cl.cbFailure)
  ELSE /\ cl.result = [success |-> ResponseOk(cl.http.status),
                       ok |-> ResponseOk(cl.http.status),
                       response |-> cl.responseData,
                       status |-> cl.http.status]
       /\ cl.responseData \in {Null, ClaimedResponse(cl.http), Str(<<>>)}

\* a step of call c that the state of no other call and of no store bars
CanStep(c) ==
  ENABLED (\/ ResumeSession(c) \/ FetchResponse(c) \/ FetchReject(c)
           \/ BodyRead(c) \/ CallbackSettle(c))

\* C25: with calls in flight together, the request of every call and the
\* envelope it resolves with are those of its own arguments, snapshot and
\* response; a call in progress can always take its next step; the base
\* URL and the default headers of the client are as constructed
C25_CallsAreIndependent ==
  /\ \A c \in Calls :
       LET cl == calls[c] IN
       /\ (cl.pc # "idle" /\ ~FailedValidation(cl)) => RequestAlone(cl)
       /\ cl.pc = "resolved" => EnvelopeAlone(cl)
       /\ InProgress(cl) => CanStep(c)
  /\ client = Construct("http://h", <<"/", "a", "p", "i", "/">>)

\* two calls in flight, one with a token and no body, one with a body and
\* no token
C25_Witness ==
  \E c, d \in Calls :
    /\ calls[c].pc = "awaitFetch"
    /\ calls[d].pc = "awaitFetch"
    /\ calls[c].leaf.method = "GET"
    /\ calls[c].headers.authorization = Bearer(<<"t", "1">>)
    /\ calls[c].headers.contentType = NoHeader
    /\ calls[d].leaf.method = "POST"
    /\ calls[d].headers.authorization = NoHeader
    /\ calls[d].headers.contentType = Header("application/json")

(***************************************************************************)
(* Path parameters, the token of a request, the callback, the arguments    *)
(***************************************************************************)
\* the call supplies an object or an array for a path parameter: under
\* $params in a single bag, or in the first of two arguments
SuppliesObjectParam(a, b) ==
  \/ BadParams(a, b)
  \/ /\ b # Undefined
     /\ a.t = "object"
     /\ HasObjectValue(a)

\* C26: a call that supplies an object or an array for a path parameter is
\* rejected with no URL built and no network call made
C26_ObjectParamRejected ==
  \A c \in Calls :
    LET cl == calls[c] IN
    (cl.pc # "idle" /\ SuppliesObjectParam(cl.a, cl.b)) =>
      /\ cl.pc = "rejected"
      /\ cl.url = None
      /\ cl.fetches = 0

\* C27: the snapshot of a call is the store at the step of its invocation
\* and stays as it is while the call runs; the Authorization header of its
\* request is the one of that snapshot, and no step of the store or of
\* another call changes the headers of a request already sent
C27_TokenOfInvocation ==
  [][\A c \in Calls :
       /\ (calls[c].pc = "idle" /\ calls'[c].pc = "awaitSession") =>
            calls'[c].session = Session(storage)
       /\ (calls[c].pc # "idle" /\ calls'[c].pc # "idle") =>
            calls'[c].session = calls[c].session
       /\ (Sent(calls[c]) /\ calls'[c].pc # "idle") =>
            calls'[c].headers = calls[c].headers
       /\ Sent(calls'[c]) =>
            calls'[c].headers.authorization = BearerOf(calls'[c].session)]_vars

\* a request in flight carries the token that has since left the store
C27_Witness ==
  \E c \in Calls :
    /\ calls[c].pc = "awaitFetch"
    /\ calls[c].headers.authorization = Bearer(<<"t", "1">>)
    /\ storage[TOKEN] = Missing
    /\ \E d \in Calls \ {c} : calls[d].cbCount = 1

\* C28: the callback is invoked only for an envelope of status 401: a call
\* whose callback has been invoked got an HTTP response of status 401 and
\* handed the callback the envelope of that response; a call that failed in
\* transport or timed out, or whose response has another status, never
\* invokes it.  A call that invoked it and still ends with another status
\* is one whose callback failed after it was invoked for the 401 envelope
C28_CallbackOnlyOn401 ==
  \A c \in Calls :
    LET cl == calls[c] IN
    /\ cl.cbCount > 0 =>
         /\ Got401(cl)
         /\ cl.netError = None
         /\ cl.cbArg # None
         /\ cl.cbArg.status = 401
    /\ (cl.netError # None \/ (cl.http # None /\ cl.http.status # 401)) =>
         /\ cl.cbCount = 0
         /\ cl.cbState = "none"
    /\ (cl.pc = "resolved" /\ cl.result.status # 401 /\ cl.cbCount > 0) =>
         cl.cbState = "rejected"

\* a 403 response read to its end and resolved without the callback
C28_Witness ==
  \E c \in Calls :
    /\ calls[c].pc = "resolved"
    /\ calls[c].http # None
    /\ calls[c].http.status = 403
    /\ calls[c].result.status = 403
    /\ calls[c].cbCount = 0
    /\ calls[c].cbState = "none"

=============================================================================
